---------------------------- MODULE Spec2Model ----------------------------
(***************************************************************************)
(* A model of dmlc-core's sparse row-block data model:                     *)
(*   - Row / RowBlock views                (include/dmlc/data.h)           *)
(*   - RowBlockContainer                   (src/data/row_block.h)          *)
(*   - BasicRowIter, the in-memory iterator (src/data/basic_row_iter.h)    *)
(*                                                                         *)
(* IndexType is instantiated as a 16-bit unsigned integer and the rows     *)
(* that are pushed carry size_t feature ids (Row<size_t>, as the parser    *)
(* produces them).  real_t values are held as the IEEE-754 bit pattern of  *)
(* the float, read as a signed 32-bit integer.  size_t arithmetic is kept  *)
(* modulo 2^SizeBits; no length of the model comes near it, only the wrap  *)
(* of 0 - 1 is visible.                                                    *)
(*                                                                         *)
(* A failed CHECK raises a condition the caller receives; what the         *)
(* operation had already written stays written.                            *)
(***************************************************************************)
EXTENDS Integers, Sequences, FiniteSets, TLC

\* ------------------------------------------------------------------ bounds
\* most rows (labels) a container of the model holds
MaxRows == 2
\* most feature entries (indices) a container of the model holds
MaxNnz == 3
\* most rows of one pushed block
MaxBatch == 2

\* ------------------------------------------------------- program constants
\* width of IndexType, and its largest value
IndexBits == 16
IndexTypeMax == 2^IndexBits - 1
\* width the model keeps size_t at
SizeBits == 24
SizeMod == 2^SizeBits
\* sizeof(size_t), sizeof(real_t), sizeof(IndexType), and of the length prefix
SizeBytes == 8
RealBytes == 4
IndexBytes == 2
LenBytes == 8

\* real_t values, as bit patterns: 0.5f, 1.0f, 2.0f, -1.0f
F_Half == 1056964608
F_One == 1065353216
F_Two == 1073741824
F_NegOne == -1082130432

\* ------------------------------------------------------------------- inputs
Labels == {F_One, F_NegOne}
FeatureIds == {1, 3, IndexTypeMax}
\* the value a data set gives feature id f
ValueOf(f) == CASE f = 1 -> F_Half
                [] f = 3 -> F_Two
                [] OTHER -> F_One
\* what a read of memory outside an array may return
Garbage == {0, 1}
\* what an uninitialized IndexType may hold
Indeterminate == {0, 2, IndexTypeMax}

VARIABLES
  offset, label, index, value, max_index,   \* the RowBlockContainer
  op,        \* the last operation called
  status,    \* how it ended
  rowwise,   \* the same rows pushed one by one (see PushBlock)
  cleared,   \* Clear() has been called on the container
  failed,    \* a Push has failed its CHECK since the last Clear()
  wild,      \* a Push has read or written outside an array since then
  pushed,    \* the feature ids of the rows pushed with success since then
  fo,        \* the stream Save wrote
  fresh,     \* the container Load filled
  blk,       \* the RowBlock GetBlock exported
  inst,      \* the Row operator[] returned
  ret,       \* the value the last call returned
  at_head_,  \* BasicRowIter::at_head_
  pc,        \* who holds the container, and where in its life
  nexts      \* Next() calls since the iterator was made or BeforeFirst(): 0, 1, many

vars == <<offset, label, index, value, max_index, op, status, rowwise, cleared,
          failed, wild, pushed, fo, fresh, blk, inst, ret, at_head_, pc, nexts>>

\* ------------------------------------------------------------------ helpers
Min2(a, b) == IF a < b THEN a ELSE b

Zeros(n) == [i \in 1..n |-> 0]

\* a pointer: the array it points into and the position it points at
Ptr(base, pos) == [base |-> base, pos |-> pos]
NULL == [base |-> <<>>, pos |-> -1]
\* p[i]
Deref(p, i) == p.base[p.pos + i + 1]

NoContainer == [offset |-> <<>>, label |-> <<>>, index |-> <<>>,
                value |-> <<>>, max_index |-> 0]
NoBlock == [size |-> 0, offset |-> NULL, label |-> NULL, index |-> NULL,
            value |-> NULL]
NoRow == [label |-> 0, length |-> 0, index |-> NULL, value |-> NULL]

\* vec with data written at positions pos, pos+1, ... (0-based); what falls
\* outside vec is lost
MemWrite(vec, pos, data) ==
  [j \in 1..Len(vec) |->
     IF j - 1 >= pos /\ j - 1 < pos + Len(data) THEN data[j - pos] ELSE vec[j]]
\* whether such a write leaves the array
WritesOutside(vec, pos, data) == Len(data) > 0 /\ pos + Len(data) > Len(vec)

\* static_cast<IndexType>(x)
CastIndex(x) == x % (IndexTypeMax + 1)

\* as MaxWith, but keeping the last feature id rather than the largest
MaxWith_Last(m, s) == IF Len(s) = 0 THEN m ELSE s[Len(s)]

\* max_index after max_index = std::max(max_index, findex) for each findex of
\* s, from max_index = m
MaxWith(m, s) ==
  LET all == {m} \cup {s[i] : i \in 1..Len(s)}
  IN CHOOSE x \in all : \A y \in all : y <= x

\* ------------------------------------------------- Row, RowBlock (data.h)
\* Row::get_index
get_index(row, i) == Deref(row.index, i)
\* Row::get_value
get_value(row, i) == IF row.value = NULL THEN F_One ELSE Deref(row.value, i)

\* twice the number a real_t of the model stands for
Twice(f) == CASE f = F_Half -> 1
              [] f = F_One -> 2
              [] f = F_Two -> 4
              [] f = F_NegOne -> -2
              [] OTHER -> 0

\* Row::SDot up to its closing brace: sum, in quarters, after the loop over
\* i = from, ..., length - 1, unless a CHECK(index[i] < size) fails on the way
RECURSIVE SDotLoop(_, _, _, _, _)
SDotLoop(row, weight, size, from, sum) ==
  IF from >= row.length THEN [status |-> "ok", sum |-> sum]
  ELSE IF ~(Deref(row.index, from) < size)
  THEN [status |-> "OutOfRange", sum |-> sum]
  ELSE SDotLoop(row, weight, size, from + 1,
                sum + (IF row.value = NULL
                       THEN 2 * Twice(weight[Deref(row.index, from) + 1])
                       ELSE Twice(weight[Deref(row.index, from) + 1])
                            * Twice(Deref(row.value, from))))

\* as RowAt, but every row's index and value start where the block's do
RowAt_FromStart(block, rowid) ==
  IF ~(rowid < block.size)
  THEN [status |-> "OutOfRange", row |-> NULL]
  ELSE [status |-> "ok",
        row |-> [label  |-> Deref(block.label, rowid),
                 length |-> (Deref(block.offset, rowid + 1)
                             - Deref(block.offset, rowid)) % SizeMod,
                 index  |-> block.index,
                 value  |-> block.value]]

\* RowBlock::operator[]; no row when CHECK(rowid < size) fails
RowAt(block, rowid) ==
  IF ~(rowid < block.size)
  THEN [status |-> "OutOfRange", row |-> NULL]
  ELSE [status |-> "ok",
        row |-> [label  |-> Deref(block.label, rowid),
                 length |-> (Deref(block.offset, rowid + 1)
                             - Deref(block.offset, rowid)) % SizeMod,
                 index  |-> Ptr(block.index.base,
                                block.index.pos + Deref(block.offset, rowid)),
                 value  |-> IF block.value = NULL THEN NULL
                            ELSE Ptr(block.value.base,
                                     block.value.pos + Deref(block.offset, rowid))]]

\* ------------------------------------------ RowBlockContainer (row_block.h)
Container == [offset |-> offset, label |-> label, index |-> index,
              value |-> value, max_index |-> max_index]

\* the container Clear() leaves
ClearOp(c) == [offset |-> <<0>>, label |-> <<>>, index |-> <<>>,
               value |-> <<>>, max_index |-> 0]

\* RowBlockContainer::Size
Size(c) == (Len(c.offset) - 1) % SizeMod

\* how many of p[0], ..., p[n-1] pass CHECK(p[i] < max()) before the first
\* that does not
Passing(p, n) ==
  LET bad == {i \in 0..(n - 1) : ~(Deref(p, i) < IndexTypeMax)}
  IN IF bad = {} THEN n ELSE CHOOSE i \in bad : \A j \in bad : i <= j

\* Push(Row<I>)
PushRowOp(c, row) ==
  LET k      == Passing(row.index, row.length)
      ids    == [i \in 1..k |-> CastIndex(Deref(row.index, i - 1))]
      label1 == Append(c.label, row.label)
      index1 == c.index \o ids
      max1   == MaxWith(c.max_index, ids)
  IN IF k < row.length
     THEN [c |-> [c EXCEPT !.label = label1, !.index = index1,
                           !.max_index = max1],
           status |-> "IndexOverflow"]
     ELSE [c |-> [label |-> label1, index |-> index1, max_index |-> max1,
                  value |-> IF row.value # NULL
                            THEN c.value \o [i \in 1..row.length |->
                                               Deref(row.value, i - 1)]
                            ELSE c.value,
                  offset |-> Append(c.offset, Len(index1))],
           status |-> "ok"]

\* Push(RowBlock<I>).  g is what a read outside the offset array returns.
\* outside: some write of the call left its array.
PushBlockOp(c, batch, g) ==
  LET size   == Len(c.label)
      label1 == c.label \o [i \in 1..batch.size |-> Deref(batch.label, i - 1)]
      ndata  == Deref(batch.offset, batch.size)
      index1 == c.index \o Zeros(ndata)
      ihead  == IF Len(c.offset) > 0 THEN c.offset[Len(c.offset)] ELSE g
      k      == Passing(batch.index, ndata)
      ids    == [i \in 1..k |-> CastIndex(Deref(batch.index, i - 1))]
      index2 == MemWrite(index1, ihead, ids)
      max1   == MaxWith(c.max_index, ids)
      out1   == WritesOutside(index1, ihead, ids)
      vals   == [i \in 1..ndata |-> Deref(batch.value, i - 1)]
      value1 == c.value \o Zeros(ndata)
      value2 == IF batch.value # NULL THEN MemWrite(value1, size, vals)
                ELSE c.value
      out2   == batch.value # NULL /\ WritesOutside(value1, size, vals)
      shift  == IF size < Len(c.offset) THEN c.offset[size + 1] ELSE g
      offs   == [i \in 1..batch.size |->
                   (shift + Deref(batch.offset, i)) % SizeMod]
      offset1 == c.offset \o Zeros(batch.size)
      offset2 == MemWrite(offset1, size + 1, offs)
      out3   == WritesOutside(offset1, size + 1, offs)
  IN IF k < ndata
     THEN [c |-> [c EXCEPT !.label = label1, !.index = index2,
                           !.max_index = max1],
           status |-> "IndexOverflow", outside |-> out1]
     ELSE [c |-> [label |-> label1, index |-> index2, max_index |-> max1,
                  value |-> value2, offset |-> offset2],
           status |-> "ok", outside |-> out1 \/ out2 \/ out3]

\* GetBlock: the view over the container's arrays, when its three CHECKs pass
GetBlockOp(c) ==
  IF \/ ~(Len(c.label) + 1 = Len(c.offset))
     \/ ~(c.offset[Len(c.offset)] = Len(c.index))
     \/ ~(c.offset[Len(c.offset)] = Len(c.value) \/ Len(c.value) = 0)
  THEN [status |-> "CheckFailed", block |-> NoBlock]
  ELSE [status |-> "ok",
        block |-> [size   |-> (Len(c.offset) - 1) % SizeMod,
                   offset |-> Ptr(c.offset, 0),
                   label  |-> Ptr(c.label, 0),
                   index  |-> Ptr(c.index, 0),
                   value  |-> IF Len(c.value) = 0 THEN NULL
                              ELSE Ptr(c.value, 0)]]

\* BasicRowIter::NumCol, of an iterator whose data_ is c
NumCol(c) == (c.max_index % SizeMod) + 1

\* whether Push(RowBlock<I>) reads outside the offset array
ReadsOutside(c, batch) ==
  \/ Len(c.offset) = 0
  \/ /\ Passing(batch.index, Deref(batch.offset, batch.size))
          = Deref(batch.offset, batch.size)
     /\ ~(Len(c.label) < Len(c.offset))

\* the rows batch[from], ..., batch[size-1] pushed one by one with Push(Row<I>),
\* up to the first that fails
RECURSIVE PushRowsOp(_, _, _)
PushRowsOp(c, batch, from) ==
  IF from >= batch.size THEN [c |-> c, status |-> "ok"]
  ELSE LET r == PushRowOp(c, RowAt(batch, from).row)
       IN IF r.status # "ok" THEN r ELSE PushRowsOp(r.c, batch, from + 1)

\* ------------------------------------------------------- Stream (dmlc/io.h)
\* A stream is a sequence of bytes.  Write(vector<T>) writes the number of
\* elements as an unsigned 64-bit integer and then the elements' bytes, least
\* significant first; Read(vector<T>*) reads them back and fails when the
\* stream is too short.
RECURSIVE Flatten(_)
Flatten(ss) == IF ss = <<>> THEN <<>> ELSE Head(ss) \o Flatten(Tail(ss))

\* the w bytes of n, in two's complement; n is within 32 bits
Bytes(n, w) ==
  [i \in 1..w |-> IF i <= 4 THEN (n \div (256 ^ (i - 1))) % 256
                  ELSE IF n < 0 THEN 255 ELSE 0]

\* the number whose bytes are b, read as a signed 32-bit integer (a real_t's
\* bit pattern) when signed, and as an unsigned integer otherwise; -1 for an
\* unsigned integer of 2^31 or more
Number(b, signed) ==
  LET w == Len(b)
      lo == [i \in 1..4 |-> IF i <= w THEN b[i] ELSE 0]
  IN IF signed
     THEN lo[1] + 256 * lo[2] + 65536 * lo[3]
          + 16777216 * (IF lo[4] >= 128 THEN lo[4] - 256 ELSE lo[4])
     ELSE IF lo[4] >= 128 \/ \E i \in 5..w : b[i] # 0 THEN -1
     ELSE lo[1] + 256 * lo[2] + 65536 * lo[3] + 16777216 * lo[4]

\* Stream::Write(const std::vector<T>&), T of w bytes
WriteVec(s, v, w) ==
  s \o Bytes(Len(v), LenBytes) \o Flatten([i \in 1..Len(v) |-> Bytes(v[i], w)])

\* Stream::Read(std::vector<T>*), T of w bytes: the vector read and the rest
\* of the stream, or ok = FALSE
ReadVec(s, w, signed) ==
  LET n == IF Len(s) < LenBytes THEN -1
           ELSE Number(SubSeq(s, 1, LenBytes), FALSE)
  IN IF n < 0 \/ n > (Len(s) - LenBytes) \div w
     THEN [ok |-> FALSE, vec |-> <<>>, rest |-> s]
     ELSE [ok |-> TRUE,
           vec |-> [i \in 1..n |->
                      Number(SubSeq(s, LenBytes + (i - 1) * w + 1,
                                    LenBytes + i * w), signed)],
           rest |-> SubSeq(s, LenBytes + n * w + 1, Len(s))]

\* RowBlockContainer::Save
SaveOp(c) ==
  LET s1 == WriteVec(<<>>, c.offset, SizeBytes)
      s2 == WriteVec(s1, c.label, RealBytes)
      s3 == WriteVec(s2, c.index, IndexBytes)
  IN WriteVec(s3, c.value, RealBytes)

\* RowBlockContainer::Load into container c: each vector is read in turn and
\* the first that cannot be read fails the CHECK
LoadOp(c, fi) ==
  LET r1 == ReadVec(fi, SizeBytes, FALSE)
      r2 == ReadVec(r1.rest, RealBytes, TRUE)
      r3 == ReadVec(r2.rest, RealBytes, TRUE)
      r4 == ReadVec(r3.rest, IndexBytes, FALSE)
      c1 == [c EXCEPT !.offset = r1.vec]
      c2 == [c1 EXCEPT !.label = r2.vec]
      c3 == [c2 EXCEPT !.value = r3.vec]
      c4 == [c3 EXCEPT !.index = r4.vec]
  IN IF ~r1.ok THEN [c |-> c, status |-> "CorruptData"]
     ELSE IF ~r2.ok THEN [c |-> c1, status |-> "CorruptData"]
     ELSE IF ~r3.ok THEN [c |-> c2, status |-> "CorruptData"]
     ELSE IF ~r4.ok THEN [c |-> c3, status |-> "CorruptData"]
     ELSE [c |-> c4, status |-> "ok"]

\* ------------------------------------------------- the rows and blocks pushed
\* the sequences of at most n feature ids
IdSeqs(n) == UNION {[1..m -> FeatureIds] : m \in 0..n}

\* a Row<size_t> over arrays of its own
InputRow(l, ids, hasValue) ==
  [label |-> l, length |-> Len(ids), index |-> Ptr(ids, 0),
   value |-> IF hasValue THEN Ptr([i \in 1..Len(ids) |-> ValueOf(ids[i])], 0)
             ELSE NULL]
RowsUpTo(n) ==
  {InputRow(l, ids, hv) : l \in Labels, ids \in IdSeqs(n), hv \in BOOLEAN}

\* a RowBlock<size_t> in compressed-row form: its rows' labels ls, its feature
\* ids and the positions cuts where a row ends and the next begins; as
\* GetBlock of a container exports it, value is NULL when it is empty
InputBlock(ls, ids, cuts, hasValue) ==
  [size   |-> Len(ls),
   offset |-> Ptr(<<0>> \o cuts \o (IF Len(ls) > 0 THEN <<Len(ids)>> ELSE <<>>), 0),
   label  |-> Ptr(ls, 0),
   index  |-> Ptr(ids, 0),
   value  |-> IF hasValue /\ Len(ids) > 0
              THEN Ptr([i \in 1..Len(ids) |-> ValueOf(ids[i])], 0)
              ELSE NULL]
\* the ways to cut n feature entries into k rows
Cuts(k, n) == {c \in [1..(k - 1) -> 0..n] : \A i \in 1..(k - 2) : c[i] <= c[i + 1]}

\* a block has no feature entries unless it has rows
Shaped(k, ids) == k > 0 \/ ids = <<>>

\* the rows of at most n feature entries
RowTable == [n \in 0..MaxNnz |-> RowsUpTo(n)]
InputRows(n) == RowTable[n]

\* ------------------------------------------------------------------- states
\* the process has not died
Alive == status # "crash"

\* a RowBlockContainer as constructed: the struct declares no constructor, so
\* the vectors are empty and max_index holds whatever the memory held
InitContainer ==
  /\ offset = <<>> /\ label = <<>> /\ index = <<>> /\ value = <<>>
  /\ max_index \in Indeterminate

InitRest ==
  /\ op = "new" /\ status = "ok"
  /\ rowwise = [c |-> Container, status |-> "ok"]
  /\ cleared = FALSE /\ failed = FALSE /\ wild = FALSE /\ pushed = {}
  /\ fo = <<>> /\ fresh = NoContainer
  /\ blk = NoBlock /\ inst = NoRow /\ ret = 0

Init ==
  /\ InitContainer
  /\ InitRest
  /\ at_head_ = TRUE /\ pc = "api" /\ nexts = 0

\* the container becomes c
Becomes(c) ==
  /\ offset' = c.offset /\ label' = c.label /\ index' = c.index
  /\ value' = c.value /\ max_index' = c.max_index

cvars == <<offset, label, index, value, max_index>>
ivars == <<at_head_, pc, nexts>>
iovars == <<fo, fresh>>
viewvars == <<blk, inst>>

\* ------------------------------------------------------------------ actions
\* the feature ids p[0], ..., p[n-1]
IdsOf(p, n) == {Deref(p, i) : i \in 0..(n - 1)}

\* In the specification of disciplined callers (pc = "careful") a container is
\* pushed to only once it was cleared, and after a failed Push it is cleared
\* before it is used again.  The program itself (pc = "api") asks for neither.
Allowed == Alive /\ pc \in {"api", "careful"} /\ op \notin {"Save", "Load"}
            /\ (pc = "careful" => cleared /\ status = "ok")

Clear ==
  /\ Alive /\ pc \in {"api", "careful"} /\ op \notin {"Save", "Load"}
  /\ Becomes(ClearOp(Container))
  /\ op' = "Clear" /\ status' = "ok"
  /\ rowwise' = [c |-> ClearOp(Container), status |-> "ok"]
  /\ cleared' = TRUE /\ failed' = FALSE /\ wild' = FALSE /\ pushed' = {}
  /\ blk' = NoBlock /\ inst' = NoRow
  /\ UNCHANGED <<ret, iovars, ivars>>

PushRow ==
  /\ Allowed
  /\ Len(label) < MaxRows
  /\ \E row \in InputRows(MaxNnz - Len(index)) :
       LET r == PushRowOp(Container, row)
       IN /\ Becomes(r.c)
          /\ status' = r.status
          /\ rowwise' = r
          /\ failed' = (failed \/ r.status # "ok")
          /\ pushed' = IF r.status = "ok"
                       THEN pushed \cup IdsOf(row.index, row.length)
                       ELSE pushed
  /\ op' = "PushRow"
  /\ blk' = NoBlock /\ inst' = NoRow
  /\ UNCHANGED <<cleared, wild, ret, iovars, ivars>>

\* Push(RowBlock<I>) of batch.  Where the call reads outside the offset
\* array it reads any g; where it reads or writes outside an array the process
\* may die of it.  rowwise keeps what pushing the rows of batch one by one
\* would have made of the same container.
PushBatch(batch) ==
  \E g \in Garbage, dies \in BOOLEAN :
    LET r  == PushBlockOp(Container, batch, g)
        ub == ReadsOutside(Container, batch) \/ r.outside
    IN /\ ReadsOutside(Container, batch) \/ g = 0
       /\ ub \/ ~dies
       /\ IF dies
          THEN /\ status' = "crash"
               /\ UNCHANGED <<cvars, rowwise, failed, pushed>>
          ELSE /\ Becomes(r.c)
               /\ status' = r.status
               /\ rowwise' = PushRowsOp(Container, batch, 0)
               /\ failed' = (failed \/ r.status # "ok")
               /\ pushed' = IF r.status = "ok"
                            THEN pushed \cup IdsOf(batch.index,
                                                   Deref(batch.offset, batch.size))
                            ELSE pushed
       /\ wild' = (wild \/ ub)

PushBlock ==
  /\ Allowed
  /\ \E k \in 0..Min2(MaxBatch, MaxRows - Len(label)) : \E ids \in IdSeqs(MaxNnz - Len(index)) :
       /\ Shaped(k, ids)
       /\ \E ls \in [1..k -> Labels] : \E cuts \in Cuts(k, Len(ids)) :
            \E hv \in BOOLEAN : PushBatch(InputBlock(ls, ids, cuts, hv))
  /\ op' = "PushBlock"
  /\ blk' = NoBlock /\ inst' = NoRow
  /\ UNCHANGED <<cleared, ret, iovars, ivars>>

Next == Clear \/ PushRow \/ PushBlock

Spec == Init /\ [][Next]_vars

\* the same container in the hands of a disciplined caller
InitCareful ==
  /\ InitContainer
  /\ InitRest
  /\ at_head_ = TRUE /\ pc = "careful" /\ nexts = 0

SpecPush == InitCareful /\ [][Next]_vars

\* --------------------------------------------------- reading an exported block
\* the dense vectors SDot is called with, and what a function that ends
\* without a return statement may be found to have returned
WeightVectors == {<<F_One, F_Two, F_Half, F_NegOne>>,
                  <<F_Two, F_Two, F_NegOne, F_One>>}
GarbageSums == {0, 7}

\* a container cleared and pushed one block, and the view GetBlock gives of it
Exported(batch) ==
  LET r == PushBlockOp(ClearOp(NoContainer), batch, 0)
  IN /\ r.status = "ok"
     /\ offset = r.c.offset /\ label = r.c.label /\ index = r.c.index
     /\ value = r.c.value /\ max_index = r.c.max_index
     /\ rowwise = [c |-> r.c, status |-> "ok"]
     /\ pushed = IdsOf(batch.index, Deref(batch.offset, batch.size))
     /\ blk = GetBlockOp(r.c).block

InitView ==
  /\ \E k \in 0..MaxBatch : \E ids \in IdSeqs(MaxNnz) :
       /\ Shaped(k, ids)
       /\ \E ls \in [1..k -> Labels] : \E cuts \in Cuts(k, Len(ids)) :
            \E hv \in BOOLEAN : Exported(InputBlock(ls, ids, cuts, hv))
  /\ op = "GetBlock" /\ status = "ok"
  /\ cleared = TRUE /\ failed = FALSE /\ wild = FALSE
  /\ fo = <<>> /\ fresh = NoContainer
  /\ inst = NoRow /\ ret = 0
  /\ at_head_ = TRUE /\ pc = "view" /\ nexts = 0

viewrest == <<cvars, rowwise, cleared, failed, wild, pushed, iovars, ivars>>

\* blk[rowid]
RowOf ==
  /\ Alive /\ pc = "view"
  /\ \E rowid \in 0..(blk.size + 1) :
       LET r == RowAt(blk, rowid)
       IN /\ inst' = (IF r.status = "ok" THEN r.row ELSE NoRow)
          /\ status' = r.status
          /\ ret' = [rowid |-> rowid]
  /\ op' = "operator[]"
  /\ UNCHANGED <<blk, viewrest>>

\* inst.get_index(i) and inst.get_value(i) of the row last taken
Get ==
  /\ Alive /\ pc = "view" /\ op \in {"operator[]", "get", "SDot"}
  /\ inst # NoRow
  /\ \E i \in 0..(inst.length - 1) :
       ret' = [rowid |-> ret.rowid, i |-> i,
               index |-> get_index(inst, i), value |-> get_value(inst, i)]
  /\ op' = "get" /\ status' = "ok"
  /\ UNCHANGED <<blk, inst, viewrest>>

\* inst.SDot(weight, size).  The function ends without a return statement:
\* the caller finds the sum, or something else, or the process dies.
SDot ==
  /\ Alive /\ pc = "view" /\ op \in {"operator[]", "get", "SDot"}
  /\ inst # NoRow
  /\ \E w \in WeightVectors : \E size \in {2, Len(w)} :
       LET r == SDotLoop(inst, SubSeq(w, 1, size), size, 0, 0)
       IN \/ /\ r.status # "ok"
             /\ status' = r.status
             /\ ret' = [rowid |-> ret.rowid, weight |-> SubSeq(w, 1, size)]
          \/ /\ r.status = "ok"
             /\ \E x \in {r.sum} \cup GarbageSums :
                  ret' = [rowid |-> ret.rowid, weight |-> SubSeq(w, 1, size),
                          result |-> x]
             /\ status' = "ok"
          \/ /\ r.status = "ok"
             /\ status' = "crash"
             /\ ret' = [rowid |-> ret.rowid, weight |-> SubSeq(w, 1, size)]
  /\ op' = "SDot"
  /\ UNCHANGED <<blk, inst, viewrest>>

NextView == RowOf \/ Get \/ SDot

SpecView == InitView /\ [][NextView]_vars

\* ------------------------------------------------------------- BasicRowIter
\* as NextOp, but leaving at_head_ as it is
NextOp_Sticky(at_head) == [ret |-> at_head, at_head |-> at_head]

\* BasicRowIter::Next: what it returns and what it leaves in at_head_
NextOp(at_head) ==
  IF at_head THEN [ret |-> TRUE, at_head |-> FALSE]
  ELSE [ret |-> FALSE, at_head |-> at_head]

\* the constructor has set at_head_ and is about to call Init(parser); data_
\* is a container as constructed and row_ is not yet set
InitIter ==
  /\ InitContainer
  /\ InitRest
  /\ at_head_ = TRUE /\ pc = "ctor" /\ nexts = 0

iterrest == <<rowwise, iovars, inst>>

\* Init: data_.Clear()
IterClear ==
  /\ Alive /\ pc = "ctor"
  /\ Becomes(ClearOp(Container))
  /\ op' = "Clear" /\ status' = "ok"
  /\ rowwise' = [c |-> ClearOp(Container), status |-> "ok"]
  /\ cleared' = TRUE /\ failed' = FALSE /\ wild' = FALSE /\ pushed' = {}
  /\ pc' = "drain"
  /\ UNCHANGED <<iovars, inst, blk, ret, at_head_, nexts>>

\* Init: parser->Next() returned true, data_.Push(parser->Value()).  A CHECK
\* that fails leaves the constructor.
IterPush ==
  /\ Alive /\ pc = "drain"
  /\ \E k \in 0..Min2(MaxBatch, MaxRows - Len(label)) : \E ids \in IdSeqs(MaxNnz - Len(index)) :
       /\ Shaped(k, ids)
       /\ \E ls \in [1..k -> Labels] : \E cuts \in Cuts(k, Len(ids)) :
            \E hv \in BOOLEAN : PushBatch(InputBlock(ls, ids, cuts, hv))
  /\ pc' = IF status' \in {"ok", "crash"} THEN "drain" ELSE "thrown"
  /\ op' = "PushBlock"
  /\ UNCHANGED <<cleared, iovars, inst, blk, ret, at_head_, nexts>>

\* Init: parser->Next() returned false, row_ = data_.GetBlock().  A CHECK
\* that fails leaves the constructor.
IterGetBlock ==
  /\ Alive /\ pc = "drain"
  /\ LET r == GetBlockOp(Container)
     IN /\ status' = r.status
        /\ blk' = r.block
        /\ pc' = IF r.status = "ok" THEN "ready" ELSE "thrown"
  /\ op' = "GetBlock"
  /\ UNCHANGED <<iterrest, cvars, cleared, failed, wild, pushed, ret,
                 at_head_, nexts>>

called == <<iterrest, cvars, cleared, failed, wild, pushed, blk, pc>>

BeforeFirst ==
  /\ Alive /\ pc = "ready"
  /\ at_head_' = TRUE
  /\ nexts' = 0
  /\ op' = "BeforeFirst" /\ status' = "ok"
  /\ UNCHANGED <<called, ret>>

IterNext ==
  /\ Alive /\ pc = "ready"
  /\ ret' = NextOp(at_head_).ret
  /\ at_head_' = NextOp(at_head_).at_head
  /\ nexts' = Min2(nexts + 1, 2)
  /\ op' = "Next" /\ status' = "ok"
  /\ UNCHANGED called

\* Value(): a reference to row_
IterValue ==
  /\ Alive /\ pc = "ready"
  /\ ret' = blk
  /\ op' = "Value" /\ status' = "ok"
  /\ UNCHANGED <<called, at_head_, nexts>>

IterNumCol ==
  /\ Alive /\ pc = "ready"
  /\ ret' = NumCol(Container)
  /\ op' = "NumCol" /\ status' = "ok"
  /\ UNCHANGED <<called, at_head_, nexts>>

NextIter == \/ IterClear \/ IterPush \/ IterGetBlock
            \/ BeforeFirst \/ IterNext \/ IterValue \/ IterNumCol

SpecIter == InitIter /\ [][NextIter]_vars

\* ------------------------------------------------------------- Save and Load
\* Save(fo) of the container; the stream is then handed to Load
Save ==
  /\ Allowed
  /\ fo' = SaveOp(Container)
  /\ op' = "Save" /\ status' = "ok"
  /\ UNCHANGED <<cvars, rowwise, cleared, failed, wild, pushed, fresh,
                 viewvars, ret, ivars>>

\* Load(fi) of that stream into a container newly created for it, whose
\* max_index holds whatever the memory held
Load ==
  /\ Alive /\ op = "Save"
  /\ \E m \in Indeterminate :
       LET r == LoadOp([NoContainer EXCEPT !.max_index = m], fo)
       IN fresh' = r.c /\ status' = r.status
  /\ op' = "Load"
  /\ UNCHANGED <<cvars, rowwise, cleared, failed, wild, pushed, fo,
                 viewvars, ret, ivars>>

NextIO == Clear \/ PushRow \/ PushBlock \/ Save \/ Load

SpecIO == InitCareful /\ [][NextIO]_vars

\* ------------------------------------------------------------------- claims
\* the largest feature id of S, 0 when S is empty
MaxId(S) == CHOOSE x \in S \cup {0} : \A y \in S \cup {0} : y <= x

NonDecreasing(s) == \A i \in 1..(Len(s) - 1) : s[i] <= s[i + 1]

\* C1: when a container built from Clear() by pushes that all succeeded is
\* saved and the stream loaded into a fresh container, the load succeeds and
\* the fresh container's offset, label, index and value are those of the
\* original.
C1_SaveLoadRoundTrip ==
  (op = "Load" /\ cleared /\ ~failed /\ ~wild)
  => /\ status = "ok"
     /\ fresh.offset = offset /\ fresh.label = label
     /\ fresh.index = index /\ fresh.value = value

\* C2: a Push(block) that succeeds on a cleared container in which no Push has
\* failed or left its arrays yields the container that Push(row), called for
\* each row of the block in turn, yields from the same state.
C2_BlockPushIsRowPushes ==
  (op = "PushBlock" /\ cleared /\ ~failed /\ ~wild
     /\ status = "ok" /\ rowwise.status = "ok")
  => rowwise.c = Container

\* C3: a Push(row) on a cleared container that fails with the index-overflow
\* condition leaves offset, label, index, value and max_index as they were
\* before the call.
C3_OverflowLeavesUnchanged ==
  [][(cleared /\ op' = "PushRow" /\ status' = "IndexOverflow")
       => UNCHANGED cvars]_vars

\* C4: in every state of a cleared container, whether or not a Push has failed
\* on it, offset starts at 0, is non-decreasing, has label.length + 1 entries
\* and ends at index.length.
C4_OffsetInvariant ==
  (cleared /\ ~wild /\ Alive)
  => /\ Len(offset) = Len(label) + 1
     /\ offset[1] = 0
     /\ NonDecreasing(offset)
     /\ offset[Len(offset)] = Len(index)

\* C5: in every state of a cleared container in which no Push has failed,
\* whatever mix of rows and blocks with and without values was pushed,
\* value.length is index.length or 0, and GetBlock() passes its CHECKs.
C5_ValueAllOrNothing ==
  (cleared /\ ~failed /\ ~wild /\ Alive)
  => /\ Len(value) = Len(index) \/ Len(value) = 0
     /\ GetBlockOp(Container).status = "ok"

\* C6: a newly created container is in the empty state: offset = [0], the
\* other arrays empty, max_index = 0, Size() = 0, and GetBlock() passes its
\* CHECKs and returns a block of size 0.
C6_NewIsEmpty ==
  op = "new"
  => /\ offset = <<0>> /\ label = <<>> /\ index = <<>> /\ value = <<>>
     /\ max_index = 0
     /\ Size(Container) = 0
     /\ GetBlockOp(Container).status = "ok"
     /\ GetBlockOp(Container).block.size = 0

\* C9: when every Push since the last Clear() succeeded, max_index is the
\* largest feature id pushed since then (0 when none was), and NumCol() of an
\* iterator over the container is that id plus one.
C9_MaxIndex ==
  (cleared /\ ~failed /\ Alive)
  => /\ max_index = MaxId(pushed)
     /\ NumCol(Container) = MaxId(pushed) + 1
\* rows with feature ids {1, 3} have been pushed with success, the last of them
\* in a block, and NumCol() is 4
C9_Witness ==
  /\ cleared /\ ~failed /\ Alive /\ op = "PushBlock" /\ status = "ok"
  /\ Len(label) = 2 /\ pushed = {1, 3} /\ index[Len(index)] = 1
  /\ NumCol(Container) = 4

\* the sum SDot is to return for row over weight, in quarters
RECURSIVE WeightedSum(_, _, _)
WeightedSum(row, weight, n) ==
  IF n = 0 THEN 0
  ELSE WeightedSum(row, weight, n - 1)
       + Twice(weight[get_index(row, n - 1) + 1]) * Twice(get_value(row, n - 1))

\* C7: the row view blk[r] of an exported block has label label[r] and length
\* offset[r+1] - offset[r]; its get_index(i) is index[offset[r] + i] and its
\* get_value(i) is value[offset[r] + i] when the block has a value array and
\* 1.0 when it has none; r >= size fails with the out-of-range condition.
C7_RowView ==
  /\ (op = "operator[]" /\ ret.rowid >= Len(label))
       => status = "OutOfRange"
  /\ (op = "operator[]" /\ ret.rowid < Len(label))
       => /\ status = "ok"
          /\ inst.label = label[ret.rowid + 1]
          /\ inst.length = offset[ret.rowid + 2] - offset[ret.rowid + 1]
  /\ op = "get"
       => /\ ret.index = index[offset[ret.rowid + 1] + ret.i + 1]
          /\ ret.value = IF blk.value # NULL
                         THEN value[offset[ret.rowid + 1] + ret.i + 1]
                         ELSE F_One
\* an entry after the first of a row after the first has been read, from a
\* block with a value array
C7_Witness ==
  /\ op = "get" /\ ret.rowid = 1 /\ ret.i = 1 /\ blk.value # NULL
  /\ offset[2] > 0 /\ ret.index = 3 /\ ret.value = F_Two
\* C8: SDot(weight, size) returns the sum of weight[index[i]] * get_value(i)
\* over the row, and fails with the out-of-range condition when a feature id
\* of the row is not less than size.
C8_SDot ==
  op = "SDot"
  => IF \E i \in 0..(inst.length - 1) : get_index(inst, i) >= Len(ret.weight)
     THEN status = "OutOfRange"
     ELSE /\ status = "ok"
          /\ ret.result = WeightedSum(inst, ret.weight, inst.length)

\* C10: of a BasicRowIter made, the first Next() after its making or after a
\* BeforeFirst() returns true and every further Next() returns false until
\* BeforeFirst() is called; Value() is the block of all the rows stored; and no
\* call changes data_ or row_.
C10_OnePass ==
  [][/\ op' = "Next" => (ret' = (nexts' = 1))
     /\ op' = "Value" => (ret' = GetBlockOp(Container').block)
     /\ pc = "ready" => UNCHANGED <<cvars, blk>>]_vars
\* a second Next() in a row has returned false, over two rows stored
C10_Witness ==
  /\ pc = "ready" /\ op = "Next" /\ nexts = 2 /\ ret = FALSE
  /\ Len(label) = 2 /\ blk.size = 2
=============================================================================
